---- MODULE Spec2Model ----
(***************************************************************************)
(* Animated gizmos (crates/bevy_gizmos/src/animated/mod.rs and             *)
(* crates/bevy_gizmos/src/arcs/helper.rs).                                 *)
(*                                                                         *)
(* Numbers.  The code computes in f32, and so does the model: an f32 is    *)
(* the record [m |-> significand, e |-> exponent] of the value m * 2^e,    *)
(* and +, -, *, /, %, clamp and the comparisons are those of IEEE 754      *)
(* with round-to-nearest-even (section "f32").  The sampler, the points of *)
(* the lines and the angles of the 2D arcs are computed this way, bit for  *)
(* bit.  Inputs are finite (no NaN, no infinity), no result is subnormal,  *)
(* and -0.0 is not told from 0.0.  A number the program is given (a speed, *)
(* a reading of the clock) is kept as the rational <<n, d>> it is written  *)
(* as (lowest terms, d > 0) and enters the arithmetic through ToF32.       *)
(* The 3D arcs go through quaternions and an arc cosine, which are not     *)
(* computed in f32 here: their directions are integer vectors, their       *)
(* radii rationals, their sweeps values p*pi + r with p and r rational,    *)
(* kept as the record [pi |-> p, rad |-> r], and a point on their circle   *)
(* is the term of its parameters.                                          *)
(*                                                                         *)
(* Specifications.  Spec is the life of the facade over frames: entry      *)
(* points, setters, finalizations and the frame clock.  SpecFacade adds    *)
(* plain draw calls.  SpecDrop applies the finalization to every builder   *)
(* of a larger set of arguments, at every clock up to MaxElapsed.          *)
(* SpecWrap is SpecDrop with two more builders, whose speed brings a dash  *)
(* to within an ulp of the end of its period.                              *)
(***************************************************************************)
EXTENDS Integers, Sequences, FiniteSets, TLC

\* ------------------------------------------------------------------ bounds
\* largest segment count given to the segments() setter
MaxSegments == 3
\* the frame clock of Spec runs from 0 to MaxTicks half-seconds
MaxTicks == 1
\* most plain draw calls made through the facade in one frame
MaxPlain == 1
\* an entry point is called while the surface holds at most MaxHeld draw calls
MaxHeld == 6
\* SpecDrop finalizes at the clocks 0 .. MaxElapsed half-seconds
MaxElapsed == 8

\* ------------------------------------------------------- rational numbers
Abs(x) == IF x < 0 THEN -x ELSE x

RECURSIVE Gcd(_, _)
Gcd(a, b) == IF b = 0 THEN a ELSE Gcd(b, a % b)

\* the rational n/d (d # 0) in lowest terms with a positive denominator
R(n, d) ==
    LET g == Gcd(Abs(n), Abs(d))
        s == IF d < 0 THEN -1 ELSE 1
    IN  <<(s * n) \div g, (s * d) \div g>>

Zero == R(0, 1)
One == R(1, 1)
Two == R(2, 1)

\* least common multiple of two denominators
Lcm(a, b) == (a \div Gcd(a, b)) * b

RAdd(a, b) ==
    LET l == Lcm(a[2], b[2])
    IN  R(a[1] * (l \div a[2]) + b[1] * (l \div b[2]), l)
RSub(a, b) ==
    LET l == Lcm(a[2], b[2])
    IN  R(a[1] * (l \div a[2]) - b[1] * (l \div b[2]), l)
RMul(a, b) ==
    LET g1 == Gcd(Abs(a[1]), b[2])
        g2 == Gcd(Abs(b[1]), a[2])
    IN  R((a[1] \div g1) * (b[1] \div g2), (a[2] \div g2) * (b[2] \div g1))
RNeg(a) == <<-a[1], a[2]>>
RLt(a, b) ==
    LET l == Lcm(a[2], b[2])
    IN  a[1] * (l \div a[2]) < b[1] * (l \div b[2])
RLe(a, b) ==
    LET l == Lcm(a[2], b[2])
    IN  a[1] * (l \div a[2]) <= b[1] * (l \div b[2])
RAbs(a) == <<Abs(a[1]), a[2]>>

\* -------------------------------------------------------------------- f32
\* An f32 is the record [m |-> significand, e |-> exponent]: the value
\* m * 2^e with 2^23 <= |m| < 2^24, and [m |-> 0, e |-> 0] for zero.  Every
\* operation rounds its exact result to the nearest such value, ties to the
\* even significand, as IEEE 754 does.
F32Zero == [m |-> 0, e |-> 0]
F32One == [m |-> 2 ^ 23, e |-> -23]
F32Two == [m |-> 2 ^ 23, e |-> -22]

\* the number of binary digits of a >= 0
RECURSIVE BitLen(_)
BitLen(a) ==
    IF a = 0 THEN 0
    ELSE IF a >= 65536 THEN 16 + BitLen(a \div 65536)
    ELSE IF a >= 256 THEN 8 + BitLen(a \div 256)
    ELSE IF a >= 16 THEN 4 + BitLen(a \div 16)
    ELSE 1 + BitLen(a \div 2)

\* round to nearest, ties to even: the quotient q of a division by 2 * half
\* that left the remainder r
RoundEven(q, r, half) ==
    IF r > half \/ (r = half /\ q % 2 = 1) THEN q + 1 ELSE q

\* the f32 of sign sgn with the rounded significand sig <= 2^24 at exponent
\* e: a significand rounded up to 2^24 takes the next exponent
F32Pack(sgn, sig, e) ==
    IF sig = 2 ^ 24 THEN [m |-> sgn * (2 ^ 23), e |-> e + 1]
    ELSE [m |-> sgn * sig, e |-> e]

\* m * 2^e with the significand brought to 24 bits: s bits are cut from it
\* and rounded (s > 0), or -s zero bits added (s <= 0)
F32Shift(m, e, s) ==
    IF s <= 0 THEN [m |-> m * (2 ^ (-s)), e |-> e + s]
    ELSE F32Pack(IF m < 0 THEN -1 ELSE 1,
                 RoundEven(Abs(m) \div (2 ^ s), Abs(m) % (2 ^ s), 2 ^ (s - 1)),
                 e + s)

\* the f32 nearest to m * 2^e for an integer m, ties to the even significand
F32Round(m, e) ==
    IF m = 0 THEN F32Zero ELSE F32Shift(m, e, BitLen(Abs(m)) - 24)

\* usize as f32 and i32 as f32, for |n| < 2^24
as_f32(n) == F32Round(n, 0)

\* f32 unary minus and f32::abs
F32Neg(x) == [m |-> -x.m, e |-> x.e]
F32Abs(x) == [m |-> Abs(x.m), e |-> x.e]

\* f32 < and <=
F32Lt(x, y) ==
    IF x.m = 0 THEN y.m > 0
    ELSE IF y.m = 0 THEN x.m < 0
    ELSE IF (x.m < 0) # (y.m < 0) THEN x.m < 0
    ELSE IF x.m > 0 THEN x.e < y.e \/ (x.e = y.e /\ x.m < y.m)
    ELSE x.e > y.e \/ (x.e = y.e /\ x.m < y.m)
F32Le(x, y) == ~F32Lt(y, x)

\* f32 +: the operand of the smaller exponent is aligned to the other with
\* three more bits and a sticky bit for what the alignment cuts
F32Add(x, y) ==
    IF x.m = 0 THEN y
    ELSE IF y.m = 0 THEN x
    ELSE LET big == IF x.e >= y.e THEN x ELSE y
             small == IF x.e >= y.e THEN y ELSE x
             d == big.e - small.e
             A == Abs(big.m) * 8
             Ya == Abs(small.m) * 8
             Yt == IF d > 27 THEN 0 ELSE Ya \div (2 ^ d)
             st == IF d > 27 THEN 1 ELSE IF Ya % (2 ^ d) > 0 THEN 1 ELSE 0
             same == (big.m < 0) = (small.m < 0)
             mag == IF same THEN 2 * (A + Yt) + st ELSE 2 * (A - Yt - st) + st
         IN  F32Round(IF big.m < 0 THEN -mag ELSE mag, big.e - 4)

\* f32 -
F32Sub(x, y) == F32Add(x, F32Neg(y))

\* f32 *: the product of the significands in two halves of 24 bits, cut
\* below its 26th bit with a sticky bit, then rounded
F32Mul(x, y) ==
    LET a == Abs(x.m)
        b == Abs(y.m)
        a1 == a \div 4096
        a0 == a % 4096
        b1 == b \div 4096
        b0 == b % 4096
        mid == a1 * b0 + a0 * b1
        low == (mid % 4096) * 4096 + a0 * b0
        lo == low % (2 ^ 24)
        hi == a1 * b1 + mid \div 4096 + low \div (2 ^ 24)
        mag == 2 * (hi * 4 + lo \div (2 ^ 22))
               + (IF lo % (2 ^ 22) > 0 THEN 1 ELSE 0)
    IN  IF a = 0 \/ b = 0 THEN F32Zero
        ELSE F32Round(IF (x.m < 0) # (y.m < 0) THEN -mag ELSE mag, x.e + y.e + 21)

\* f32 /, for y # 0: long division of the significands to 26 binary places
\* with a sticky bit for the remainder, then rounded
F32Div(x, y) ==
    LET a == Abs(x.m)
        b == Abs(y.m)
        r0 == a % b
        r1 == (r0 * 64) % b
        r2 == (r1 * 64) % b
        r3 == (r2 * 64) % b
        r4 == (r3 * 64) % b
        r5 == (r4 * 4) % b
        q == ((((a \div b) * 64 + (r0 * 64) \div b) * 64 + (r1 * 64) \div b) * 64
                + (r2 * 64) \div b) * 64 + (r3 * 64) \div b
        mag == 2 * (q * 4 + (r4 * 4) \div b) + (IF r5 > 0 THEN 1 ELSE 0)
    IN  IF x.m = 0 THEN F32Zero
        ELSE F32Round(IF (x.m < 0) # (y.m < 0) THEN -mag ELSE mag, x.e - y.e - 27)

\* f32::recip
recip(x) == F32Div(F32One, x)

\* r * 2^d modulo b
RECURSIVE RemShift(_, _, _)
RemShift(r, d, b) == IF d = 0 THEN r ELSE RemShift((2 * r) % b, d - 1, b)

\* f32::rem_euclid, for y # 0: the remainder that is never negative
F32Rem_euclid(x, y) ==
    LET a == Abs(x.m)
        b == Abs(y.m)
        d == x.e - y.e
        r == IF d < 0 THEN a ELSE RemShift(a % b, d, b)
        rem == F32Round(IF x.m < 0 THEN -r ELSE r, IF d < 0 THEN x.e ELSE y.e)
    IN  IF x.m = 0 THEN F32Zero
        ELSE IF rem.m < 0 THEN F32Add(rem, F32Abs(y)) ELSE rem

\* f32 %, for y # 0: x - trunc(x / y) * y, which is exact and has the sign
\* of x
F32Rem(x, y) ==
    LET a == Abs(x.m)
        b == Abs(y.m)
        d == x.e - y.e
        r == RemShift(a % b, d, b)
    IN  IF x.m = 0 THEN F32Zero
        ELSE IF d < 0 THEN x
        ELSE F32Round(IF x.m < 0 THEN -r ELSE r, y.e)

\* f32::clamp
clamp(x, lo, hi) == IF F32Lt(x, lo) THEN lo ELSE IF F32Lt(hi, x) THEN hi ELSE x

\* the f32 a number is written as: the one nearest to the rational r
ToF32(r) == F32Div(as_f32(r[1]), as_f32(r[2]))

\* --------------------------------------------------------------- vectors
\* Vec2 and Vec3 of f32: tuples of f32
Vec_sub(a, b) == [i \in DOMAIN a |-> F32Sub(a[i], b[i])]
Vec_add(a, b) == [i \in DOMAIN a |-> F32Add(a[i], b[i])]
\* f32 * Vec
Vec_mul(k, a) == [i \in DOMAIN a |-> F32Mul(k, a[i])]
\* a vector of integers as a Vec of f32
ToVec(a) == [i \in DOMAIN a |-> as_f32(a[i])]

\* vectors of rationals, for the points of the 3D arcs
VAdd(a, b) == [i \in DOMAIN a |-> RAdd(a[i], b[i])]
VScale(k, a) == [i \in DOMAIN a |-> RMul(k, a[i])]
\* a vector of integers as a vector of rationals
ToR(a) == [i \in DOMAIN a |-> R(a[i], 1)]

\* ------------------------------------------------------ percentage sampler
\* The arguments delta_t and speed are the rationals the numbers were given
\* as; the sampler computes with the f32 nearest to them.
\* the last map of sample_percentages: the window that ends at percent,
\* [percent - segment_length, percent], each bound clamped to [0, 1]
clamp_window(percent, segment_length) ==
    <<clamp(F32Sub(percent, segment_length), F32Zero, F32One),
      clamp(percent, F32Zero, F32One)>>

\* sample_window without the final clamp to [0, 1]
sample_window_noclamp(num_segments, frac, delta_t, speed) ==
    LET num_f32 == as_f32(num_segments)
        percent0 == F32Div(as_f32(frac), num_f32)
        percent1 == F32Add(percent0, F32Mul(ToF32(delta_t), ToF32(speed)))
        modulo == F32Add(F32One, recip(num_f32))
        percent == F32Rem(percent1, modulo)
        segment_length == recip(F32Mul(num_f32, F32Two))
    IN  <<F32Sub(percent, segment_length),
          percent>>

\* sample_window that adds delta_t without the speed factor
sample_window_nospeed(num_segments, frac, delta_t, speed) ==
    LET num_f32 == as_f32(num_segments)
        percent0 == F32Div(as_f32(frac), num_f32)
        percent1 == F32Add(percent0, ToF32(delta_t))
        modulo == F32Add(F32One, recip(num_f32))
        percent == F32Rem(percent1, modulo)
        segment_length == recip(F32Mul(num_f32, F32Two))
    IN  clamp_window(percent, segment_length)

\* sample_window with a dash of length 1/N instead of 1/(2N)
sample_window_longdash(num_segments, frac, delta_t, speed) ==
    LET num_f32 == as_f32(num_segments)
        percent0 == F32Div(as_f32(frac), num_f32)
        percent1 == F32Add(percent0, F32Mul(ToF32(delta_t), ToF32(speed)))
        modulo == F32Add(F32One, recip(num_f32))
        percent == F32Rem(percent1, modulo)
        segment_length == recip(num_f32)
    IN  clamp_window(percent, segment_length)

\* sample_window that subtracts the offset delta_t * speed
sample_window_backwards(num_segments, frac, delta_t, speed) ==
    LET num_f32 == as_f32(num_segments)
        percent0 == F32Div(as_f32(frac), num_f32)
        percent1 == F32Sub(percent0, F32Mul(ToF32(delta_t), ToF32(speed)))
        modulo == F32Add(F32One, recip(num_f32))
        percent == F32Rem(percent1, modulo)
        segment_length == recip(F32Mul(num_f32, F32Two))
    IN  clamp_window(percent, segment_length)

\* sample_window with the period 1 instead of 1 + 1/N
sample_window_unit_period(num_segments, frac, delta_t, speed) ==
    LET num_f32 == as_f32(num_segments)
        percent0 == F32Div(as_f32(frac), num_f32)
        percent1 == F32Add(percent0, F32Mul(ToF32(delta_t), ToF32(speed)))
        modulo == F32One
        percent == F32Rem(percent1, modulo)
        segment_length == recip(F32Mul(num_f32, F32Two))
    IN  clamp_window(percent, segment_length)

\* sample_window with the dashes spaced 1/(4N) apart instead of 1/N
sample_window_crowded(num_segments, frac, delta_t, speed) ==
    LET num_f32 == as_f32(num_segments)
        percent0 == F32Div(as_f32(frac), F32Mul(num_f32, as_f32(4)))
        percent1 == F32Add(percent0, F32Mul(ToF32(delta_t), ToF32(speed)))
        modulo == F32Add(F32One, recip(num_f32))
        percent == F32Rem(percent1, modulo)
        segment_length == recip(F32Mul(num_f32, F32Two))
    IN  clamp_window(percent, segment_length)

\* the chain of maps of sample_percentages for one index frac in
\* 0..=num_segments: frac as f32 / num_f32, + delta_t * speed, % modulo,
\* then the pair [percent - segment_length, percent] clamped to [0, 1]
sample_window(num_segments, frac, delta_t, speed) ==
    LET num_f32 == as_f32(num_segments)
        percent0 == F32Div(as_f32(frac), num_f32)
        percent1 == F32Add(percent0, F32Mul(ToF32(delta_t), ToF32(speed)))
        modulo == F32Add(F32One, recip(num_f32))
        percent == F32Rem(percent1, modulo)
        segment_length == recip(F32Mul(num_f32, F32Two))
    IN  clamp_window(percent, segment_length)

\* sample_percentages over the range 0..num_segments without its upper end
sample_percentages_exclusive(num_segments, delta_t, speed) ==
    [i \in 1..num_segments |->
        sample_window(num_segments, i - 1, delta_t, speed)]

\* sample_percentages(num_segments, delta_t, speed), num_segments > 0: the
\* windows for frac = 0..=num_segments in order (frac = i - 1 at position i)
sample_percentages(num_segments, delta_t, speed) ==
    [i \in 1..(num_segments + 1) |->
        sample_window(num_segments, i - 1, delta_t, speed)]

\* ----------------------------------------------------------------- angles
\* the angle p*pi + r radians
Angle(p, r) == [pi |-> p, rad |-> r]
AZero == Angle(Zero, Zero)
\* std::f32::consts::TAU
TAU == Angle(Two, Zero)
\* core::f32::consts::PI
PI == Angle(One, Zero)
AAdd(a, b) == Angle(RAdd(a.pi, b.pi), RAdd(a.rad, b.rad))
ASub(a, b) == Angle(RSub(a.pi, b.pi), RSub(a.rad, b.rad))
ANeg(a) == Angle(RNeg(a.pi), RNeg(a.rad))
\* a plain number times an angle
AScale(k, a) == Angle(RMul(k, a.pi), RMul(k, a.rad))

\* the sign of a rational
RSign(a) == IF a[1] > 0 THEN 1 ELSE IF a[1] < 0 THEN -1 ELSE 0

\* the sign of p*pi + r: that of the two parts when they agree, and decided
\* with 333/106 < pi < 355/113 when they do not
ASign(a) ==
    LET lo == RAdd(RMul(a.pi, R(333, 106)), a.rad)
        hi == RAdd(RMul(a.pi, R(355, 113)), a.rad)
    IN  IF a.pi = Zero THEN RSign(a.rad)
        ELSE IF a.rad = Zero \/ RSign(a.rad) = RSign(a.pi) THEN RSign(a.pi)
        ELSE IF lo[1] > 0 /\ hi[1] > 0 THEN 1
        ELSE IF lo[1] < 0 /\ hi[1] < 0 THEN -1
        ELSE 2   \* not decided by these bounds; no value of the model gets here
ALt(a, b) == ASign(ASub(a, b)) = -1
ALe(a, b) == ASign(ASub(a, b)) \in {-1, 0}
AAbs(a) == IF ASign(a) = -1 THEN ANeg(a) ELSE a
\* f32::clamp on the sweep of a 3D arc
AClamp(x, lo, hi) == IF ALt(x, lo) THEN lo ELSE IF ALt(hi, x) THEN hi ELSE x

\* ------------------------------------------------ unit vectors, rotations
\* A Vec3 with integer coordinates is a tuple of three integers here.  The
\* unit vector v/|v| is encoded by the shortest integer vector of the same
\* direction; the zero vector encodes itself.
IZero3 == <<0, 0, 0>>
IVecY == <<0, 1, 0>>
IVecX == <<1, 0, 0>>
ISub(a, b) == <<a[1] - b[1], a[2] - b[2], a[3] - b[3]>>
Dot(a, b) == a[1] * b[1] + a[2] * b[2] + a[3] * b[3]
Cross(a, b) == <<a[2] * b[3] - a[3] * b[2],
                 a[3] * b[1] - a[1] * b[3],
                 a[1] * b[2] - a[2] * b[1]>>

\* Vec3::normalize_or_zero: the unit vector of v, the zero vector for v = 0
normalize_or_zero(v) ==
    LET g == Gcd(Gcd(Abs(v[1]), Abs(v[2])), Abs(v[3]))
    IN  IF g = 0 THEN IZero3 ELSE <<v[1] \div g, v[2] \div g, v[3] \div g>>

\* integer square root of a perfect square
RECURSIVE SqrtFrom(_, _)
SqrtFrom(n, k) == IF k * k >= n THEN k ELSE SqrtFrom(n, k + 1)
ISqrt(n) == SqrtFrom(n, 0)
IsSquare(n) == ISqrt(n) * ISqrt(n) = n

\* Vec3::distance, for points whose distance is an integer
distance(a, b) == R(ISqrt(Dot(ISub(a, b), ISub(a, b))), 1)

\* the angle in [0, pi] between two non-zero directions, for the directions
\* whose angle is a multiple of pi/12 or pi/4
AngleBetween(a, b) ==
    LET d == Dot(a, b)
        nn == Dot(a, a) * Dot(b, b)
        neg == d < 0
    IN  IF d = 0 THEN Angle(R(1, 2), Zero)
        ELSE IF d * d = nn THEN (IF neg THEN PI ELSE AZero)
        ELSE IF 2 * d * d = nn THEN Angle(IF neg THEN R(3, 4) ELSE R(1, 4), Zero)
        ELSE IF 4 * d * d = nn THEN Angle(IF neg THEN R(2, 3) ELSE R(1, 3), Zero)
        ELSE IF 4 * d * d = 3 * nn THEN Angle(IF neg THEN R(5, 6) ELSE R(1, 6), Zero)
        ELSE Angle(Zero, R(-1, 1))   \* not exact in this encoding; inputs exclude it
AngleExact(a, b) ==
    LET d == Dot(a, b)
        nn == Dot(a, a) * Dot(b, b)
    IN  a = IZero3 \/ b = IZero3 \/ d = 0 \/ d * d = nn \/ 2 * d * d = nn
        \/ 4 * d * d = nn \/ 4 * d * d = 3 * nn

\* A Quat is kept in axis-angle form: the unit rotation axis (zero for the
\* identity) and the rotation angle in [0, pi].
QuatIdentity == [axis |-> IZero3, angle |-> AZero]

\* Vec3::any_orthonormal_vector of the unit vector along a direction v of
\* integer length n: with the unit vector (x, y, z) = v / n the code returns
\* (x * y * a, sign + y * y * a, -y) for a = -1 / (sign + z); the direction
\* below is that vector times the positive n * (n + |v[3]|)
any_orthonormal_vector(v) ==
    LET n == ISqrt(Dot(v, v))
        sign == IF v[3] >= 0 THEN 1 ELSE -1
        s == sign * n + v[3]
    IN  normalize_or_zero(<<-sign * v[1] * v[2],
                            sign * (sign * n * s - v[2] * v[2]),
                            -sign * v[2] * s>>)

\* Quat::from_rotation_arc(from, to): the shortest rotation taking from to to
from_rotation_arc(from, to) ==
    IF from # IZero3 /\ from = to
    THEN QuatIdentity
    ELSE IF from # IZero3 /\ from = <<-to[1], -to[2], -to[3]>>
    THEN [axis |-> any_orthonormal_vector(from), angle |-> PI]
    ELSE IF Cross(from, to) = IZero3
    THEN QuatIdentity
    ELSE [axis |-> normalize_or_zero(Cross(from, to)),
          angle |-> AngleBetween(from, to)]

\* Quat::to_axis_angle
to_axis_angle(q) ==
    IF q.axis = IZero3 \/ q.angle = AZero
    THEN [axis |-> IVecX, angle |-> AZero]
    ELSE [axis |-> q.axis, angle |-> q.angle]

\* std::f32::consts::FRAC_PI_2: the f32 nearest to pi/2
FRAC_PI_2 == [m |-> 13176795, e |-> -23]

\* arc_2d_inner(direction_angle, arc_angle, radius, resolution) up to the
\* angles it takes sin_cos of: resolution + 1 angles from
\* direction_angle - arc_angle/2 to direction_angle + arc_angle/2, measured
\* from the Y axis (the + FRAC_PI_2)
arc_2d_inner(direction_angle, arc_angle, res) ==
    LET start == F32Sub(direction_angle, F32Div(arc_angle, F32Two))
    IN  [k \in 1..(res + 1) |->
            LET percentage == F32Div(as_f32(k - 1), as_f32(res))
                offset == F32Mul(percentage, arc_angle)
            IN  F32Add(F32Add(start, FRAC_PI_2), offset)]

\* ---------------------------------------------------- arc geometry helper
identity(angle) == angle

\* angle_fn_long that subtracts the full turn instead of subtracting from it
angle_fn_long_negated(angle) ==
    IF ASign(angle) = 1 THEN ASub(angle, TAU)
    ELSE IF ASign(angle) = -1 THEN AAdd(angle, TAU)
    ELSE AZero

\* angle_fn_long that complements to half a turn
angle_fn_long_half(angle) ==
    IF ASign(angle) = 1 THEN ASub(PI, angle)
    ELSE IF ASign(angle) = -1 THEN ASub(ANeg(PI), angle)
    ELSE AZero

\* angle_fn_long that sweeps the full turn for every non-zero angle
angle_fn_long_full_turn(angle) ==
    IF ASign(angle) = 1 THEN TAU
    ELSE IF ASign(angle) = -1 THEN ANeg(TAU)
    ELSE AZero

\* angle_fn_long of animated_arc_long
angle_fn_long(angle) ==
    IF ASign(angle) = 1 THEN ASub(TAU, angle)
    ELSE IF ASign(angle) = -1 THEN ASub(ANeg(TAU), angle)
    ELSE AZero

ApplyAngleFn(angle_fn, angle) ==
    IF angle_fn = "angle_fn_long" THEN angle_fn_long(angle) ELSE identity(angle)

\* from_to_param_converter that measures the radius to `to`
from_to_param_converter_radius_to(center, from, to, angle_fn) ==
    LET from_axis == normalize_or_zero(ISub(from, center))
        to_axis == normalize_or_zero(ISub(to, center))
        aa == to_axis_angle(from_rotation_arc(from_axis, to_axis))
        up == aa.axis
        angle == ApplyAngleFn(angle_fn, aa.angle)
        radius == distance(center, to)
        rotation == from_rotation_arc(IVecY, up)
    IN  [start_vertex |-> [inverse_of |-> rotation, times |-> from_axis],
         rotation |-> rotation,
         angle |-> angle,
         radius |-> radius]

\* from_to_param_converter(center, from, to, angle_fn).  start_vertex is
\* rotation.inverse() * from_axis, kept as that term.
from_to_param_converter(center, from, to, angle_fn) ==
    LET from_axis == normalize_or_zero(ISub(from, center))
        to_axis == normalize_or_zero(ISub(to, center))
        aa == to_axis_angle(from_rotation_arc(from_axis, to_axis))
        up == aa.axis
        angle == ApplyAngleFn(angle_fn, aa.angle)
        radius == distance(center, from)
        rotation == from_rotation_arc(IVecY, up)
    IN  [start_vertex |-> [inverse_of |-> rotation, times |-> from_axis],
         rotation |-> rotation,
         angle |-> angle,
         radius |-> radius]

\* ------------------------------------------------------------ input sets
\* Option<u32>
None == <<>>
Some(x) == <<x>>

Colors == {"GREEN", "RED"}
\* colours of the lines and of the arcs in Spec and SpecFacade
LineColors == {"GREEN"}
ArcColors == {"RED"}

\* Arguments in Spec and SpecFacade.
\* (start, end) of the animated lines
Lines3 == {<<<<0, 0, 0>>, <<10, 0, 0>>>>}
Lines2 == {<<<<0, 0>>, <<4, 2>>>>}
\* (from, to, center) of the 3D arcs
Arcs3 == {<<<<2, 0, 0>>, <<0, 3, 0>>, <<0, 0, 0>>>>}
\* (position, direction_angle, arc_angle, radius) of the 2D arcs
Arcs2d == {<<<<0, 0>>, F32Zero, FRAC_PI_2, F32One>>}
\* segment counts given to the segments() setter
SegmentCounts == {0, MaxSegments}
\* speed factors given to the speed() setter
Speeds == {Zero}
\* resolutions given to the resolution() setter
Resolutions == {16, 64}

\* Arguments in SpecDrop.
\* end points of the animated lines
LinePoints3 == {<<0, 0, 0>>, <<10, 0, 0>>}
LinePoints2 == {<<0, 0>>, <<4, 2>>}
\* from, to and center of the 3D arcs
ArcCenters == {<<0, 0, 0>>, <<0, 2, 0>>}
ArcFroms == {<<0, 2, 0>>, <<2, 0, 0>>}
ArcTos == {<<0, 0, 0>>, <<-1, 0, 0>>, <<1, 1, 0>>, <<0, 3, 0>>}
\* the triples the encoding of unit vectors and angles is exact for: the
\* radius is an integer, the angle between the rays is in the table, and so
\* is the angle between Vec3::Y and the axis `up` the rotation is built from
ArcExact(from, to, center) ==
    LET from_axis == normalize_or_zero(ISub(from, center))
        to_axis == normalize_or_zero(ISub(to, center))
    IN  /\ IsSquare(Dot(ISub(from, center), ISub(from, center)))
        /\ AngleExact(from_axis, to_axis)
        /\ AngleExact(IVecY, to_axis_angle(from_rotation_arc(from_axis, to_axis)).axis)

\* direction_angle, arc_angle and radius of the 2D arcs
Arc2dPositions == {<<0, 0>>}
Arc2dDirections == {F32Zero, FRAC_PI_2}
Arc2dAngles == {FRAC_PI_2, F32Div(FRAC_PI_2, F32Two)}
Arc2dRadii == {F32One}
\* segment counts and speed factors of the builders
DropSegments == (0..MaxSegments) \cup {5}
DropSpeeds == {R(-1, 1), Zero, R(1, 10), One}

\* ----------------------------------------------------------------- state
VARIABLES
    enabled,    \* Gizmos::enabled of the wrapped draw surface
    time,       \* Time: elapsed half-seconds of the clock
    calls,      \* draw calls the surface received in this frame, in order
    builder,    \* fields of the latest builder of this frame, NoBuilder
                \* before the first
    phase,      \* "Idle": no builder yet in this frame; "Configuring": a
                \* builder is alive; "Emitted": the latest builder was dropped
    sampled,    \* windows sample_percentages gave the builder's finalization
    submitted,  \* draw calls the builder's finalization made, in order
    canonical,  \* canonical arc the builder's finalization computed
    hist        \* history of the builder: times its drop ran, the calls the
                \* surface held when it was created, last argument of each
                \* setter, and whether a setter replaced a different value of
                \* an earlier call

vars == <<enabled, time, calls, builder, phase, sampled, submitted, canonical, hist>>

NoBuilder == [kind |-> "none"]
NoHist == [drops |-> 0, before |-> <<>>, segments |-> None, speed |-> None,
           resolution |-> None, overwritten |-> FALSE]

\* Time::elapsed_seconds
elapsed_seconds(t) == R(t, 2)

\* ------------------------------------------------------- builder setters
\* a segments() that keeps the value of its first call
segments_keeps_first(self, n) ==
    IF self.segments = 5 THEN [self EXCEPT !.segments = n] ELSE self

\* a resolution() that leaves the builder as it was
resolution_ignored(self, r) == self

\* segments(self, segments) of the four builders
segments(self, n) == [self EXCEPT !.segments = n]
\* speed(self, factor) of the four builders
speed(self, factor) == [self EXCEPT !.speed = factor]
\* resolution(self, resolution) of the two arc builders
resolution(self, r) == [self EXCEPT !.resolution = Some(r)]

\* --------------------------------------------------------- entry points
animated_line(start, end, color) ==
    [kind |-> "AnimatedLineBuilder", start |-> start, end |-> end,
     color |-> color, segments |-> 5, speed |-> R(1, 10)]

animated_line_2d(start, end, color) ==
    [kind |-> "AnimatedLine2dBuilder", start |-> start, end |-> end,
     color |-> color, segments |-> 5, speed |-> R(1, 10)]

animated_arc_long(from, to, center, color) ==
    [kind |-> "AnimatedArcBuilder", from |-> from, to |-> to, center |-> center,
     color |-> color, angle_fn |-> "angle_fn_long",
     segments |-> 5, speed |-> R(1, 10), resolution |-> None]

animated_arc_short(from, to, center, color) ==
    [kind |-> "AnimatedArcBuilder", from |-> from, to |-> to, center |-> center,
     color |-> color, angle_fn |-> "identity",
     segments |-> 5, speed |-> R(1, 10), resolution |-> None]

animated_arc_2d(position, direction_angle, arc_angle, radius, color) ==
    [kind |-> "AnimatedArc2dBuilder", position |-> position,
     direction_angle |-> direction_angle, arc_angle |-> arc_angle,
     radius |-> radius, color |-> color,
     segments |-> 5, speed |-> R(1, 10), resolution |-> None]

\* ---------------------------------------------------------- finalization
\* the early returns without the check of Gizmos::enabled
DropReturnsEarly_ignores_enabled(self, en) == self.segments = 0

\* what every drop starts with: the two early returns
DropReturnsEarly(self, en) == (~en) \/ self.segments = 0

\* the windows a drop samples: none after an early return
DropSamples(self, en, t) ==
    IF DropReturnsEarly(self, en) THEN <<>>
    ELSE sample_percentages(self.segments, elapsed_seconds(t), self.speed)

\* the closures of AnimatedLineBuilder::drop for one window: both
\* percentages become points, the pair goes to Gizmos::line
AnimatedLineBuilder_segment(self, window) ==
    LET diff == Vec_sub(ToVec(self.end), ToVec(self.start))
        color == self.color
    IN  [fn |-> "line",
         start |-> Vec_add(ToVec(self.start), Vec_mul(window[1], diff)),
         end |-> Vec_add(ToVec(self.start), Vec_mul(window[2], diff)),
         color |-> color]

\* the map and for_each of AnimatedLineBuilder::drop over the sampled windows, in
\* order
AnimatedLineBuilder_for_each(self, w) ==
    [i \in DOMAIN w |-> AnimatedLineBuilder_segment(self, w[i])]

\* Drop for AnimatedLineBuilder: one Gizmos::line per window, in order
AnimatedLineBuilder_drop(self, en, t) ==
    IF DropReturnsEarly(self, en) THEN <<>>
    ELSE AnimatedLineBuilder_for_each(self,
             sample_percentages(self.segments, elapsed_seconds(t), self.speed))

\* the closures of AnimatedLine2dBuilder::drop for one window
AnimatedLine2dBuilder_segment(self, window) ==
    LET diff == Vec_sub(ToVec(self.end), ToVec(self.start))
        color == self.color
    IN  [fn |-> "line_2d",
         start |-> Vec_add(ToVec(self.start), Vec_mul(window[1], diff)),
         end |-> Vec_add(ToVec(self.start), Vec_mul(window[2], diff)),
         color |-> color]

\* the map and for_each of AnimatedLine2dBuilder::drop over the sampled windows, in
\* order
AnimatedLine2dBuilder_for_each(self, w) ==
    [i \in DOMAIN w |-> AnimatedLine2dBuilder_segment(self, w[i])]

\* Drop for AnimatedLine2dBuilder: one Gizmos::line_2d per window, in order
AnimatedLine2dBuilder_drop(self, en, t) ==
    IF DropReturnsEarly(self, en) THEN <<>>
    ELSE AnimatedLine2dBuilder_for_each(self,
             sample_percentages(self.segments, elapsed_seconds(t), self.speed))

\* percent * angle of the 3D arc drop, kept as the term of its factors: the
\* fraction percent (an f32) of the sweep angle
FracAngle(percent, angle) == [percent |-> percent, angle |-> angle]

\* isometry * ((Quat::from_axis_angle(Vec3::Y, frac_angle) * start_vertex) * radius)
\* with isometry = Isometry3d::new(center, rotation).  A zero radius
\* or a zero start_vertex gives center; a zero frac_angle gives
\* center + radius * from_axis, since
\* rotation * (rotation.inverse() * from_axis) = from_axis; any other point
\* of the circle is kept as the term of its parameters.
ArcPoint(center, arc, frac_angle) ==
    LET dir == arc.start_vertex.times
        len == R(ISqrt(Dot(dir, dir)), 1)
    IN  IF arc.radius = Zero \/ len = Zero THEN ToR(center)
        ELSE IF frac_angle.percent = F32Zero \/ frac_angle.angle = AZero
        THEN VAdd(ToR(center), VScale(RMul(arc.radius, R(len[2], len[1])), ToR(dir)))
        ELSE [center |-> center, rotation |-> arc.rotation,
              start_vertex |-> arc.start_vertex, frac_angle |-> frac_angle,
              radius |-> arc.radius]

\* the canonical arc AnimatedArcBuilder::drop computes before it samples
AnimatedArcBuilder_arc(self) ==
    from_to_param_converter(self.center, self.from, self.to, self.angle_fn)

\* the closures of AnimatedArcBuilder::drop with the end point of every
\* sub-arc put at the builder's `to`
AnimatedArcBuilder_segment_ends_at_to(self, window) ==
    LET arc == from_to_param_converter(self.center, self.from, self.to, self.angle_fn)
        angle == AClamp(arc.angle, ANeg(TAU), TAU)
    IN  [fn |-> "short_arc_3d_between",
         center |-> self.center,
         from |-> ArcPoint(self.center, arc, FracAngle(window[1], angle)),
         to |-> ToR(self.to),
         color |-> self.color,
         resolution |-> self.resolution]

\* the closures of AnimatedArcBuilder::drop for one window
AnimatedArcBuilder_segment(self, window) ==
    LET arc == AnimatedArcBuilder_arc(self)
        angle == AClamp(arc.angle, ANeg(TAU), TAU)
        color == self.color
    IN  [fn |-> "short_arc_3d_between",
         center |-> self.center,
         from |-> ArcPoint(self.center, arc, FracAngle(window[1], angle)),
         to |-> ArcPoint(self.center, arc, FracAngle(window[2], angle)),
         color |-> color,
         resolution |-> self.resolution]

\* the map and for_each of AnimatedArcBuilder::drop over the sampled windows, in
\* order
AnimatedArcBuilder_for_each(self, w) ==
    [i \in DOMAIN w |-> AnimatedArcBuilder_segment(self, w[i])]

\* Drop for AnimatedArcBuilder: one Gizmos::short_arc_3d_between per window
AnimatedArcBuilder_drop(self, en, t) ==
    IF DropReturnsEarly(self, en) THEN <<>>
    ELSE AnimatedArcBuilder_for_each(self,
             sample_percentages(self.segments, elapsed_seconds(t), self.speed))

\* the closures of AnimatedArc2dBuilder::drop without the `+ length` term of
\* the direction angle
AnimatedArc2dBuilder_segment_nolength(self, window) ==
    LET start == window[1]
        end == window[2]
        length == F32Abs(F32Sub(start, end))
    IN  [fn |-> "arc_2d",
         position |-> self.position,
         direction_angle |->
            F32Add(self.direction_angle, F32Mul(start, self.arc_angle)),
         arc_angle |-> F32Mul(length, self.arc_angle),
         radius |-> self.radius,
         color |-> self.color,
         resolution |-> self.resolution]

\* the closures of AnimatedArc2dBuilder::drop with every sub-arc given the
\* whole span
AnimatedArc2dBuilder_segment_fullspan(self, window) ==
    LET start == window[1]
        end == window[2]
        length == F32Abs(F32Sub(start, end))
    IN  [fn |-> "arc_2d",
         position |-> self.position,
         direction_angle |->
            F32Add(F32Add(self.direction_angle, F32Mul(start, self.arc_angle)),
                   length),
         arc_angle |-> self.arc_angle,
         radius |-> self.radius,
         color |-> self.color,
         resolution |-> self.resolution]

\* the closures of AnimatedArc2dBuilder::drop with the window start
\* subtracted from the direction angle
AnimatedArc2dBuilder_segment_reversed(self, window) ==
    LET start == window[1]
        end == window[2]
        length == F32Abs(F32Sub(start, end))
    IN  [fn |-> "arc_2d",
         position |-> self.position,
         direction_angle |->
            F32Add(F32Sub(self.direction_angle, F32Mul(start, self.arc_angle)),
                   length),
         arc_angle |-> F32Mul(length, self.arc_angle),
         radius |-> self.radius,
         color |-> self.color,
         resolution |-> self.resolution]

\* the closures of AnimatedArc2dBuilder::drop for one window
AnimatedArc2dBuilder_segment(self, window) ==
    LET start == window[1]
        end == window[2]
        length == F32Abs(F32Sub(start, end))
        color == self.color
    IN  [fn |-> "arc_2d",
         position |-> self.position,
         direction_angle |->
            F32Add(F32Add(self.direction_angle, F32Mul(start, self.arc_angle)),
                   length),
         arc_angle |-> F32Mul(length, self.arc_angle),
         radius |-> self.radius,
         color |-> color,
         resolution |-> self.resolution]

\* the map and for_each of AnimatedArc2dBuilder::drop over the sampled windows, in
\* order
AnimatedArc2dBuilder_for_each(self, w) ==
    [i \in DOMAIN w |-> AnimatedArc2dBuilder_segment(self, w[i])]

\* Drop for AnimatedArc2dBuilder: one Gizmos::arc_2d per window, in order
AnimatedArc2dBuilder_drop(self, en, t) ==
    IF DropReturnsEarly(self, en) THEN <<>>
    ELSE AnimatedArc2dBuilder_for_each(self,
             sample_percentages(self.segments, elapsed_seconds(t), self.speed))

\* the drop of the builder's type
drop(self, en, t) ==
    CASE self.kind = "AnimatedLineBuilder" -> AnimatedLineBuilder_drop(self, en, t)
      [] self.kind = "AnimatedLine2dBuilder" -> AnimatedLine2dBuilder_drop(self, en, t)
      [] self.kind = "AnimatedArcBuilder" -> AnimatedArcBuilder_drop(self, en, t)
      [] self.kind = "AnimatedArc2dBuilder" -> AnimatedArc2dBuilder_drop(self, en, t)

\* the closures of the builder's type
segment(self, window) ==
    CASE self.kind = "AnimatedLineBuilder" -> AnimatedLineBuilder_segment(self, window)
      [] self.kind = "AnimatedLine2dBuilder" -> AnimatedLine2dBuilder_segment(self, window)
      [] self.kind = "AnimatedArcBuilder" -> AnimatedArcBuilder_segment(self, window)
      [] self.kind = "AnimatedArc2dBuilder" -> AnimatedArc2dBuilder_segment(self, window)

\* the canonical arc a drop computes: only the 3D arc builder, past the
\* early returns
NoArc == [kind |-> "none"]
DropArc(self, en) ==
    IF self.kind = "AnimatedArcBuilder" /\ ~DropReturnsEarly(self, en)
    THEN AnimatedArcBuilder_arc(self)
    ELSE NoArc

\* ------------------------------------------------- plain draws (facade)
\* AnimatedGizmos { gizmos, time }: the wrapped draw surface and the clock
AnimatedGizmos(en, cs, t) == [gizmos |-> [enabled |-> en, calls |-> cs], time |-> t]

\* DerefMut::deref_mut that hands out a fresh surface instead of the wrapped one
deref_mut_fresh(self) == [enabled |-> self.gizmos.enabled, calls |-> <<>>]

\* Deref::deref and DerefMut::deref_mut: the wrapped Gizmos
deref_mut(self) == self.gizmos

\* the surface g after it received Gizmos::line_2d(start, end, color)
line_2d(g, start, end, color) ==
    [g EXCEPT !.calls = Append(@, [fn |-> "line_2d", start |-> ToVec(start),
                                   end |-> ToVec(end), color |-> color])]

\* arguments of the plain calls made through the facade
PlainColors == {"BLUE"}
PlainPoints == {<<7, 7>>}
\* plain calls in a sequence of calls, told by their colour
PlainCount(cs) == Cardinality({i \in DOMAIN cs : cs[i].color \in PlainColors})

\* ---------------------------------------------------------------- actions
Init ==
    /\ enabled \in BOOLEAN
    /\ time = 0
    /\ calls = <<>>
    /\ builder = NoBuilder
    /\ phase = "Idle"
    /\ sampled = <<>>
    /\ submitted = <<>>
    /\ canonical = NoArc
    /\ hist = NoHist

\* An entry point takes the facade by &mut self: it is called when no builder
\* borrows the facade, before the first builder of a frame or after an earlier
\* one was dropped.  The surface keeps the calls it holds.
CanCreate ==
    /\ phase \in {"Idle", "Emitted"}
    /\ Len(calls) <= MaxHeld

\* an entry point returns a builder with the default segments and speed
Create(b) ==
    /\ builder' = b
    /\ phase' = "Configuring"
    /\ hist' = [NoHist EXCEPT !.before = calls]
    /\ sampled' = <<>>
    /\ submitted' = <<>>
    /\ canonical' = NoArc
    /\ UNCHANGED <<enabled, time, calls>>

AnimatedLine ==
    /\ CanCreate
    /\ \E l \in Lines3, color \in LineColors :
        Create(animated_line(l[1], l[2], color))

AnimatedLine2d ==
    /\ CanCreate
    /\ \E l \in Lines2, color \in LineColors :
        Create(animated_line_2d(l[1], l[2], color))

AnimatedArcLong ==
    /\ CanCreate
    /\ \E a \in Arcs3, color \in ArcColors :
        Create(animated_arc_long(a[1], a[2], a[3], color))

AnimatedArcShort ==
    /\ CanCreate
    /\ \E a \in Arcs3, color \in ArcColors :
        Create(animated_arc_short(a[1], a[2], a[3], color))

AnimatedArc2d ==
    /\ CanCreate
    /\ \E a \in Arcs2d, color \in ArcColors :
        Create(animated_arc_2d(a[1], a[2], a[3], a[4], color))

SetSegments ==
    /\ phase = "Configuring"
    /\ \E n \in SegmentCounts :
        /\ builder' = segments(builder, n)
        /\ hist' = [hist EXCEPT !.segments = Some(n),
                             !.overwritten = @ \/ hist.segments \notin {None, Some(n)}]
        /\ UNCHANGED <<enabled, time, calls, phase, sampled, submitted, canonical>>

SetSpeed ==
    /\ phase = "Configuring"
    /\ \E factor \in Speeds :
        /\ builder' = speed(builder, factor)
        /\ hist' = [hist EXCEPT !.speed = Some(factor),
                             !.overwritten = @ \/ hist.speed \notin {None, Some(factor)}]
        /\ UNCHANGED <<enabled, time, calls, phase, sampled, submitted, canonical>>

SetResolution ==
    /\ phase = "Configuring"
    /\ builder.kind \in {"AnimatedArcBuilder", "AnimatedArc2dBuilder"}
    /\ \E r \in Resolutions :
        /\ builder' = resolution(builder, r)
        /\ hist' = [hist EXCEPT !.resolution = Some(r),
                             !.overwritten = @ \/ hist.resolution \notin {None, Some(r)}]
        /\ UNCHANGED <<enabled, time, calls, phase, sampled, submitted, canonical>>

\* the builder goes out of scope: its drop runs and the surface receives its
\* calls after those it holds
Drop ==
    /\ phase = "Configuring"
    /\ phase' = "Emitted"
    /\ sampled' = DropSamples(builder, enabled, time)
    /\ submitted' = drop(builder, enabled, time)
    /\ canonical' = DropArc(builder, enabled)
    /\ calls' = calls \o submitted'
    /\ hist' = [hist EXCEPT !.drops = @ + 1]
    /\ UNCHANGED <<enabled, time, builder>>

\* the next frame: the clock advances, the surface is cleared and its
\* configuration may have changed
Tick ==
    /\ phase # "Configuring"
    /\ time < MaxTicks
    /\ time' = time + 1
    /\ enabled' \in BOOLEAN
    /\ calls' = <<>>
    /\ builder' = NoBuilder
    /\ phase' = "Idle"
    /\ sampled' = <<>>
    /\ submitted' = <<>>
    /\ canonical' = NoArc
    /\ hist' = NoHist

\* gizmos.line_2d(start, end, color) on the facade: the method is found on the
\* wrapped Gizmos through deref_mut.  A builder borrows the facade mutably,
\* so no plain call is made while one is being configured.
GizmosLine2d ==
    /\ phase \in {"Idle", "Emitted"}
    /\ PlainCount(calls) < MaxPlain
    /\ \E start \in PlainPoints, end \in PlainPoints, color \in PlainColors :
        LET g == line_2d(deref_mut(AnimatedGizmos(enabled, calls, time)),
                         start, end, color)
        IN  /\ calls' = g.calls
            /\ enabled' = g.enabled
    /\ UNCHANGED <<time, builder, phase, sampled, submitted, canonical, hist>>

Next ==
    \/ AnimatedLine
    \/ AnimatedLine2d
    \/ AnimatedArcLong
    \/ AnimatedArcShort
    \/ AnimatedArc2d
    \/ SetSegments
    \/ SetSpeed
    \/ SetResolution
    \/ Drop
    \/ Tick

Spec == Init /\ [][Next]_vars

\* frames in which the system also makes plain draw calls through the facade
NextFacade ==
    \/ Next
    \/ GizmosLine2d

SpecFacade == Init /\ [][NextFacade]_vars

\* ------------------------------------------------------------ finalization alone
\* the builders the entry points return for the arguments of SpecDrop
DropBuilders ==
    {animated_line(start, end, color) :
        start \in LinePoints3, end \in LinePoints3, color \in Colors}
    \cup {animated_line_2d(start, end, color) :
        start \in LinePoints2, end \in LinePoints2, color \in Colors}
    \cup {animated_arc_long(a[1], a[2], a[3], color) :
        a \in {x \in ArcFroms \X ArcTos \X ArcCenters : ArcExact(x[1], x[2], x[3])},
        color \in Colors}
    \cup {animated_arc_short(a[1], a[2], a[3], color) :
        a \in {x \in ArcFroms \X ArcTos \X ArcCenters : ArcExact(x[1], x[2], x[3])},
        color \in Colors}
    \cup {animated_arc_2d(position, direction_angle, arc_angle, radius, color) :
        position \in Arc2dPositions, direction_angle \in Arc2dDirections,
        arc_angle \in Arc2dAngles, radius \in Arc2dRadii, color \in Colors}

\* a builder on which segments(n) and speed(factor) were called, alive in a
\* frame at any clock up to MaxElapsed, the first builder of its frame
InitDrop ==
    /\ enabled \in BOOLEAN
    /\ time \in 0..MaxElapsed
    /\ calls = <<>>
    /\ \E b \in DropBuilders, n \in DropSegments, factor \in DropSpeeds :
        /\ builder = speed(segments(b, n), factor)
        /\ hist = [NoHist EXCEPT !.segments = Some(n), !.speed = Some(factor)]
    /\ phase = "Configuring"
    /\ sampled = <<>>
    /\ submitted = <<>>
    /\ canonical = NoArc

NextDrop == Drop

SpecDrop == InitDrop /\ [][NextDrop]_vars

\* ------------------------------------------- finalization next to a wrap
\* (segments, speed) that bring a dash to within an ulp of the end of its
\* period at the clock 0.5: 5 segments with the f32 0.39999998 (0x3ecccccc),
\* where 1.0 + 0.19999999 rounds up to the f32 period 1.2000000, and 6
\* segments with the f32 2.3333333 (0x40155555), where 0.5 * speed is the f32
\* period 1.1666666, which is below 7/6.  delta_t * speed is exact in both,
\* so the offsets are those of the clocks 0.19999999 and 1.1666666 at speed 1.
WrapCases == {<<5, R(3355443, 8388608)>>, <<6, R(9786709, 4194304)>>}

\* the builders of SpecDrop and those of WrapCases, at the same clocks
InitWrap ==
    /\ enabled \in BOOLEAN
    /\ time \in 0..MaxElapsed
    /\ calls = <<>>
    /\ \E b \in DropBuilders, c \in (DropSegments \X DropSpeeds) \cup WrapCases :
        /\ builder = speed(segments(b, c[1]), c[2])
        /\ hist = [NoHist EXCEPT !.segments = Some(c[1]), !.speed = Some(c[2])]
    /\ phase = "Configuring"
    /\ sampled = <<>>
    /\ submitted = <<>>
    /\ canonical = NoArc

NextWrap == Drop

SpecWrap == InitWrap /\ [][NextWrap]_vars

\* ================================================================ claims
\* the finalization of the latest builder has run
Finalized == phase = "Emitted"
\* a finalization has run past both early returns
Acted == phase = "Emitted" /\ enabled /\ builder.segments > 0


RMax(a, b) == IF RLt(a, b) THEN b ELSE a
\* a / b for b # 0
RDiv(a, b) == RMul(a, R(b[2], b[1]))

\* The claims speak of real numbers and the program computes in f32.  An f32
\* is compared with a real number through the multiples of 2^-22 next to it,
\* and numbers are taken as equal when they differ by rounding: by no more
\* than Tol.
FloorDiv(a, b) == IF a >= 0 THEN a \div b ELSE -((b - a - 1) \div b)
\* the greatest multiple of 2^-22 that is at most the f32 x (|x| < 128)
Below(x) ==
    IF x.e >= -22 THEN R(x.m * (2 ^ (x.e + 22)), 2 ^ 22)
    ELSE IF x.e < -52 THEN R(IF x.m < 0 THEN -1 ELSE 0, 2 ^ 22)
    ELSE R(FloorDiv(x.m, 2 ^ (-22 - x.e)), 2 ^ 22)
\* the least multiple of 2^-22 that is at least the f32 x
Above(x) == RNeg(Below(F32Neg(x)))
\* the rounding the claims allow for: 2^-20, some 1e-6
Tol == R(1, 2 ^ 20)
\* the f32 x is the real number r up to rounding
Near(x, r) == RLe(RSub(r, Tol), Below(x)) /\ RLe(Above(x), RAdd(r, Tol))
\* two f32 are the same number up to rounding
Close(x, y) == RLe(RAbs(RSub(Below(x), Below(y))), Tol)
\* the visible length w1 - w0 of a window, and bounds of it from both sides
WindowLength(w) == RSub(Below(w[2]), Below(w[1]))
LengthAbove(w) == RSub(Above(w[2]), Below(w[1]))
LengthBelow(w) == RSub(Below(w[2]), Above(w[1]))
\* a window of non-zero length
Visible(w) == F32Lt(w[1], w[2])

\* C1: for every segment count n > 0, every speed and every elapsed time the
\* sampler yields exactly n+1 windows [w0, w1], each with 0 <= w0 <= w1 <= 1.
C1_WindowsInUnitInterval ==
    Acted =>
        /\ Len(sampled) = builder.segments + 1
        /\ \A i \in DOMAIN sampled :
            /\ F32Le(F32Zero, sampled[i][1])
            /\ F32Le(sampled[i][1], sampled[i][2])
            /\ F32Le(sampled[i][2], F32One)

\* a sample with a dash strictly inside (0,1), a dash cut by the upper clamp
\* and a dash that has left the interval
C1_Witness ==
    /\ Acted
    /\ time > 0
    /\ \E i \in DOMAIN sampled :
        F32Lt(F32Zero, sampled[i][1]) /\ F32Lt(sampled[i][1], sampled[i][2])
        /\ F32Lt(sampled[i][2], F32One)
    /\ \E j \in DOMAIN sampled : sampled[j] = <<F32One, F32One>>
    /\ \E k \in DOMAIN sampled :
        sampled[k][1] = F32Zero /\ F32Lt(F32Zero, sampled[k][2])

\* C2: periodicity: for every n > 0, every time t and every speed s # 0,
\* positive or negative, sample(n, t, s) equals sample(n, t + (1 + 1/n)/s, s)
\* window by window, up to rounding.  (Both times are taken non-negative, as
\* the clock is.)
C2_Periodicity ==
    (Acted /\ builder.speed # Zero) =>
        LET n == builder.segments
            period == RDiv(RAdd(One, R(1, n)), builder.speed)
            t2 == RAdd(elapsed_seconds(time), period)
        IN  RLe(Zero, t2) =>
                \A i \in 1..(n + 1) :
                    LET later == sample_window(n, i - 1, t2, builder.speed)
                    IN  /\ Close(sampled[i][1], later[1])
                        /\ Close(sampled[i][2], later[2])

\* C3: with speed = 0 the sample does not depend on the time: the windows
\* and the geometry submitted are those of every other frame time.
C3_StaticAtZeroSpeed ==
    (Acted /\ builder.speed = Zero) =>
        \A t2 \in 0..MaxElapsed :
            /\ sampled = sample_percentages(builder.segments, elapsed_seconds(t2), Zero)
            /\ submitted = drop(builder, enabled, t2)

\* a finalization at speed 0 in a later frame that submits a visible dash
C3_Witness ==
    /\ Acted
    /\ builder.speed = Zero
    /\ time > 0
    /\ \E i \in DOMAIN sampled : Visible(sampled[i])

\* C4: a finalization with the surface disabled, or with segment count 0,
\* submits no draw call (and samples nothing), whatever the other
\* parameters are, and completes: the surface holds what it held when the
\* builder was created.
C4_NoOpFinalization ==
    (Finalized /\ (~enabled \/ builder.segments = 0)) =>
        /\ submitted = <<>>
        /\ calls = hist.before
        /\ sampled = <<>>
        /\ canonical = NoArc

\* a 2D arc builder finalized with segments(0) on an enabled surface that
\* holds the calls of an earlier builder of the frame
C4_Witness ==
    /\ Finalized
    /\ enabled
    /\ builder.kind = "AnimatedArc2dBuilder"
    /\ builder.segments = 0
    /\ hist.segments = Some(0)
    /\ hist.before # <<>>
    /\ calls = hist.before

\* C5: on an enabled surface with segment count n > 0 a finalization submits
\* exactly n+1 draw calls, the i-th made from the i-th sampled window
\* (indices 0..n in order), each with the colour of the builder; the surface
\* receives them after the calls it held when the builder was created.
C5_OneCallPerWindow ==
    Acted =>
        /\ Len(submitted) = builder.segments + 1
        /\ calls = hist.before \o submitted
        /\ \A i \in 1..(builder.segments + 1) :
            /\ sampled[i] = sample_window(builder.segments, i - 1,
                                          elapsed_seconds(time), builder.speed)
            /\ submitted[i] = segment(builder, sampled[i])
            /\ submitted[i].color = builder.color

\* a 3D arc builder with segments(3) that has submitted its four sub-arcs
\* after the green lines of an earlier builder of the frame
C5_Witness ==
    /\ Acted
    /\ builder.kind = "AnimatedArcBuilder"
    /\ builder.segments = 3
    /\ builder.color = "RED"
    /\ Len(submitted) = 4
    /\ hist.before # <<>>
    /\ \A i \in DOMAIN hist.before : hist.before[i].color = "GREEN"
    /\ Len(calls) = Len(hist.before) + 4
    /\ \A i \in 1..4 : submitted[i].fn = "short_arc_3d_between"

\* C6: when elapsed_time * speed = 0, window i is [max(0, i/n - 1/(2n)), i/n]
\* (up to rounding) and a line builder maps it to start + w*(end - start); so
\* animated_line((0,0,0), (10,0,0)).segments(1).speed(0) at time 0 submits
\* exactly two lines: (0,0,0)-(0,0,0) and (5,0,0)-(10,0,0).
C6_WindowsAtOffsetZero ==
    /\ (Acted /\ RMul(elapsed_seconds(time), builder.speed) = Zero) =>
        \A i \in 0..builder.segments :
            LET n == builder.segments
                w == sampled[i + 1]
            IN  /\ Near(w[1], RMax(Zero, RSub(R(i, n), R(1, 2 * n))))
                /\ Near(w[2], R(i, n))
                /\ builder.kind = "AnimatedLineBuilder" =>
                    LET start == ToVec(builder.start)
                        diff == Vec_sub(ToVec(builder.end), start)
                    IN  /\ submitted[i + 1].start = Vec_add(start, Vec_mul(w[1], diff))
                        /\ submitted[i + 1].end = Vec_add(start, Vec_mul(w[2], diff))
    /\ (/\ Finalized /\ enabled /\ time = 0
        /\ \E c \in Colors :
            builder = segments(speed(animated_line(<<0, 0, 0>>, <<10, 0, 0>>, c), Zero), 1))
       => /\ Len(submitted) = 2
          /\ submitted[1].start = ToVec(<<0, 0, 0>>)
          /\ submitted[1].end = ToVec(<<0, 0, 0>>)
          /\ submitted[2].start = ToVec(<<5, 0, 0>>)
          /\ submitted[2].end = ToVec(<<10, 0, 0>>)

\* the scenario of C6 after its finalization
C6_Witness ==
    /\ Finalized /\ enabled /\ time = 0
    /\ builder.kind = "AnimatedLineBuilder"
    /\ builder.start = <<0, 0, 0>> /\ builder.end = <<10, 0, 0>>
    /\ hist.segments = Some(1) /\ hist.speed = Some(Zero)
    /\ Len(submitted) = 2

\* the value a setter leaves: that of its last call, the default without one
LastOr(last, default) == IF last = None THEN default ELSE last[1]

\* C7: lifecycle Configuring -> Finalizing -> Emitted.  After an entry point
\* and any number of chained setters the finalization runs exactly once, when
\* the builder goes out of scope and never during a setter call; it uses the
\* value of the last call of each setter (the default without a call); after
\* it the builder takes no further call: the frame ends or an entry point
\* returns a new builder.
C7_Lifecycle ==
    /\ [](phase = "Configuring" =>
            /\ hist.drops = 0
            /\ submitted = <<>> /\ calls = hist.before /\ sampled = <<>>)
    /\ [](phase = "Emitted" =>
            /\ hist.drops = 1
            /\ builder.segments = LastOr(hist.segments, 5)
            /\ builder.speed = LastOr(hist.speed, R(1, 10))
            /\ (builder.kind \in {"AnimatedArcBuilder", "AnimatedArc2dBuilder"}
                    => builder.resolution = hist.resolution)
            /\ (builder.kind \in {"AnimatedLineBuilder", "AnimatedLine2dBuilder"}
                    => hist.resolution = None)
            /\ submitted = drop(builder, enabled, time)
            /\ calls = hist.before \o submitted)
    /\ [][/\ (phase = "Idle" => phase' \in {"Idle", "Configuring"})
          /\ (phase = "Configuring" => phase' \in {"Configuring", "Emitted"})
          /\ (phase = "Configuring" /\ phase' = "Configuring"
                => calls' = calls /\ hist'.drops = hist.drops)
          /\ (phase = "Emitted" =>
                \/ phase' = "Idle" /\ builder' = NoBuilder
                \/ /\ phase' = "Configuring"
                   /\ hist' = [NoHist EXCEPT !.before = calls]
                   /\ calls' = calls)]_vars

\* a finalized builder one of whose setters was called again with another
\* value, and which has emitted after an earlier builder of the frame
C7_Witness ==
    /\ Acted
    /\ hist.overwritten
    /\ hist.drops = 1
    /\ hist.segments # None /\ hist.speed # None /\ hist.resolution # None
    /\ hist.before # <<>>

\* the angle of the rotation from the ray to `from` to the ray to `to`, as
\* Quat::to_axis_angle decomposes it
Decomposed(b) ==
    to_axis_angle(from_rotation_arc(normalize_or_zero(ISub(b.from, b.center)),
                                    normalize_or_zero(ISub(b.to, b.center)))).angle

\* the rays to from and to are at 90 degrees
Perpendicular(b) ==
    /\ b.from # b.center /\ b.to # b.center
    /\ Dot(ISub(b.from, b.center), ISub(b.to, b.center)) = 0

\* C8: the short policy passes the decomposed angle through; the long policy
\* maps a > 0 to 2*pi - a, a < 0 to -2*pi - a and 0 to 0 (applied here to the
\* decomposed angle a of the finalized arc and to -a).  For from and to 90
\* degrees apart the short arc sweeps pi/2 and the long arc 3*pi/2, both
\* positive.
C8_AnglePolicy ==
    (Acted /\ builder.kind = "AnimatedArcBuilder") =>
        LET a == Decomposed(builder)
        IN  /\ \A x \in {a, ANeg(a)} :
                /\ identity(x) = x
                /\ ASign(x) = 1 => angle_fn_long(x) = ASub(TAU, x)
                /\ ASign(x) = -1 => angle_fn_long(x) = ASub(ANeg(TAU), x)
                /\ ASign(x) = 0 => angle_fn_long(x) = AZero
            /\ builder.angle_fn = "identity" => canonical.angle = a
            /\ builder.angle_fn = "angle_fn_long" =>
                canonical.angle = IF a = AZero THEN AZero ELSE ASub(TAU, a)
            /\ Perpendicular(builder) =>
                /\ builder.angle_fn = "identity" =>
                    canonical.angle = Angle(R(1, 2), Zero)
                /\ builder.angle_fn = "angle_fn_long" =>
                    canonical.angle = Angle(R(3, 2), Zero)

\* a long arc between rays at 90 degrees, finalized with a sweep of 3*pi/2
C8_Witness ==
    /\ Acted
    /\ builder.kind = "AnimatedArcBuilder"
    /\ builder.angle_fn = "angle_fn_long"
    /\ Perpendicular(builder)
    /\ canonical.angle = Angle(R(3, 2), Zero)

\* the sweeps of the two policies for the rays of builder b: the one the
\* finalization computed and the one of the other policy
ShortSweep(b) ==
    IF b.angle_fn = "identity" THEN canonical.angle
    ELSE from_to_param_converter(b.center, b.from, b.to, "identity").angle
LongSweep(b) ==
    IF b.angle_fn = "angle_fn_long" THEN canonical.angle
    ELSE from_to_param_converter(b.center, b.from, b.to, "angle_fn_long").angle

\* C9 as claimed: for every from, to and center (two rays: from # center and
\* to # center) the long sweep magnitude is at least the short one and the two
\* magnitudes add up to 2*pi, also when from and to lie in the same direction
\* from center (short sweep 0).
C9_ComplementaryAlways ==
    (/\ Acted /\ builder.kind = "AnimatedArcBuilder"
     /\ builder.from # builder.center /\ builder.to # builder.center) =>
        /\ ALe(AAbs(ShortSweep(builder)), AAbs(LongSweep(builder)))
        /\ AAdd(AAbs(ShortSweep(builder)), AAbs(LongSweep(builder))) = TAU

\* C9 amended: the long sweep magnitude is at least the short one; the two
\* add up to 2*pi when the short sweep is not 0; when the short sweep is 0 the
\* long sweep is 0 too.
C9_ComplementaryUnlessZero ==
    (Acted /\ builder.kind = "AnimatedArcBuilder") =>
        /\ ALe(AAbs(ShortSweep(builder)), AAbs(LongSweep(builder)))
        /\ ShortSweep(builder) # AZero =>
            AAdd(AAbs(ShortSweep(builder)), AAbs(LongSweep(builder))) = TAU
        /\ ShortSweep(builder) = AZero => LongSweep(builder) = AZero

\* a long arc between rays 45 degrees apart, finalized with a sweep of 7*pi/4
C9_Witness ==
    /\ Acted
    /\ builder.kind = "AnimatedArcBuilder"
    /\ builder.angle_fn = "angle_fn_long"
    /\ ShortSweep(builder) = Angle(R(1, 4), Zero)
    /\ canonical.angle = Angle(R(7, 4), Zero)

\* from or to coincides with center
DegenerateRay(b) == b.from = b.center \/ b.to = b.center

\* C10 as claimed: if from == center or to == center, either one alone, the
\* converter returns angle 0 and radius 0 for both policies.
C10_DegenerateZeroRadius ==
    (Acted /\ builder.kind = "AnimatedArcBuilder" /\ DegenerateRay(builder)) =>
        /\ ShortSweep(builder) = AZero
        /\ LongSweep(builder) = AZero
        /\ canonical.radius = Zero

\* C10 amended: if from == center or to == center the converter returns angle
\* 0 for both policies; the radius is the distance from center to from: 0 when
\* from == center, and not 0 when only to == center.
C10_DegenerateZeroAngle ==
    (Acted /\ builder.kind = "AnimatedArcBuilder" /\ DegenerateRay(builder)) =>
        LET d == ISub(builder.from, builder.center)
        IN  /\ ShortSweep(builder) = AZero
            /\ LongSweep(builder) = AZero
            /\ builder.from = builder.center => canonical.radius = Zero
            /\ builder.from # builder.center =>
                /\ RLt(Zero, canonical.radius)
                /\ RMul(canonical.radius, canonical.radius) = R(Dot(d, d), 1)

\* an arc with to == center and from two units away, finalized
C10_Witness ==
    /\ Acted
    /\ builder.kind = "AnimatedArcBuilder"
    /\ builder.to = builder.center
    /\ builder.from # builder.center
    /\ canonical.angle = AZero
    /\ canonical.radius = R(2, 1)

\* C11: a 3D arc with from == center produces no visible geometry and no
\* failure: for every n > 0, time and speed the finalization completes with
\* n+1 sub-arcs, each with both endpoints equal to each other, at center.
C11_DegenerateArcInvisible ==
    (Acted /\ builder.kind = "AnimatedArcBuilder" /\ builder.from = builder.center) =>
        /\ Len(submitted) = builder.segments + 1
        /\ canonical.radius = Zero
        /\ \A i \in DOMAIN submitted :
            /\ submitted[i].from = submitted[i].to
            /\ submitted[i].from = ToR(builder.center)
            /\ submitted[i].center = builder.center

\* an arc with from == center and to elsewhere, finalized in a later frame
\* with a non-zero speed and two segments
C11_Witness ==
    /\ Acted
    /\ builder.kind = "AnimatedArcBuilder"
    /\ builder.from = builder.center
    /\ builder.to # builder.center
    /\ builder.speed = One
    /\ builder.segments = 2
    /\ time > 0
    /\ Len(submitted) = 3

\* C12: 2D polar arc mapping: for each sampled window [w0, w1] with
\* length = |w0 - w1| the 2D arc builder submits exactly one polar sub-arc
\* with the builder's center and radius, direction_angle' = direction_angle
\* + w0*arc_angle + length and arc_angle' = length*arc_angle.
C12_PolarArcMapping ==
    (Acted /\ builder.kind = "AnimatedArc2dBuilder") =>
        /\ Len(submitted) = Len(sampled)
        /\ Len(sampled) = builder.segments + 1
        /\ \A i \in DOMAIN sampled :
            LET w0 == sampled[i][1]
                w1 == sampled[i][2]
                length == F32Abs(F32Sub(w0, w1))
            IN  /\ submitted[i].fn = "arc_2d"
                /\ submitted[i].position = builder.position
                /\ submitted[i].radius = builder.radius
                /\ submitted[i].direction_angle =
                    F32Add(F32Add(builder.direction_angle,
                                  F32Mul(w0, builder.arc_angle)), length)
                /\ submitted[i].arc_angle = F32Mul(length, builder.arc_angle)

\* a 2D arc finalized in a later frame one of whose dashes starts inside the
\* arc (w0 > 0) and has its full length
C12_Witness ==
    /\ Acted
    /\ builder.kind = "AnimatedArc2dBuilder"
    /\ time > 0
    /\ builder.speed # Zero
    /\ \E i \in DOMAIN sampled :
        /\ F32Lt(F32Zero, sampled[i][1])
        /\ Near(sampled[i][2], RAdd(Below(sampled[i][1]), R(1, 2 * builder.segments)))
        /\ F32Lt(F32Zero, submitted[i].arc_angle)

\* an upper bound of the sum of the arc_angle arguments of a sequence of
\* arc_2d calls
RECURSIVE SumArcAngles(_)
SumArcAngles(cs) ==
    IF cs = <<>> THEN Zero
    ELSE RAdd(Above(Head(cs).arc_angle), SumArcAngles(Tail(cs)))

\* the 2D arc of the scenario: direction_angle = 0, arc_angle = pi/2,
\* radius = 1, segments = 5
ScenarioArc2d(b) ==
    /\ b.kind = "AnimatedArc2dBuilder"
    /\ b.direction_angle = F32Zero
    /\ b.arc_angle = FRAC_PI_2
    /\ b.radius = F32One
    /\ b.segments = 5

\* C13: dashes of a 2D polar arc never exceed the total span: for
\* arc_angle >= 0, every n > 0, speed and elapsed time the arc_angle' values
\* of the n+1 sub-arcs of one finalization sum to at most arc_angle; the
\* scenario arc (0, pi/2, 1, segments 5) submits 6 sub-arcs.
C13_DashesWithinSpan ==
    (Acted /\ builder.kind = "AnimatedArc2dBuilder"
     /\ F32Le(F32Zero, builder.arc_angle)) =>
        /\ RLe(SumArcAngles(submitted), Below(builder.arc_angle))
        /\ \A i \in DOMAIN submitted : F32Le(F32Zero, submitted[i].arc_angle)
        /\ ScenarioArc2d(builder) => Len(submitted) = 6

\* the scenario arc finalized in a later frame with visible dashes
C13_Witness ==
    /\ Acted
    /\ ScenarioArc2d(builder)
    /\ time > 0
    /\ builder.speed # Zero
    /\ Len(submitted) = 6
    /\ \E i \in DOMAIN submitted : F32Lt(F32Zero, submitted[i].arc_angle)
    /\ RLt(Zero, SumArcAngles(submitted))

\* no dash of the sample of builder b at clock t has wrapped around: every
\* offset i/n + elapsed_time*speed lies in [0, 1 + 1/n)
NoWraparound(b, t) ==
    \A i \in 0..b.segments :
        LET offset == RAdd(R(i, b.segments), RMul(elapsed_seconds(t), b.speed))
        IN  RLe(Zero, offset) /\ RLt(offset, RAdd(One, R(1, b.segments)))

C15_SubArcsWithinArc ==
    (Acted /\ builder.kind = "AnimatedArc2dBuilder"
     /\ F32Le(F32Zero, builder.arc_angle)) =>
        \A r \in Resolutions :
            LET whole == arc_2d_inner(builder.direction_angle, builder.arc_angle, r)
            IN  \A i \in DOMAIN submitted :
                    LET part == arc_2d_inner(submitted[i].direction_angle,
                                             submitted[i].arc_angle, r)
                    IN  \A k \in DOMAIN part :
                            /\ F32Le(whole[1], part[k])
                            /\ F32Le(part[k], whole[r + 1])

\* the plain calls the facade can be given
PlainCalls ==
    {[fn |-> "line_2d", start |-> ToVec(s), end |-> ToVec(e), color |-> c] :
        s \in PlainPoints, e \in PlainPoints, c \in PlainColors}
IsPlain(c) == c.color \in PlainColors
IsAnimated(c) == c.color \notin PlainColors

\* C16: a non-animated draw call made through the facade reaches the wrapped
\* Gizmos unchanged (the surface receives exactly that call, appended to what
\* it holds), adds no animated geometry and neither reads nor changes the
\* clock; the plain calls made before and after an animated builder in a
\* frame and the calls of the builder do not affect each other.
C16_FacadeForwards ==
    /\ [](\A i \in DOMAIN calls : IsPlain(calls[i]) => calls[i] \in PlainCalls)
    /\ [](SelectSeq(calls, IsAnimated) = SelectSeq(hist.before, IsAnimated) \o submitted)
    /\ [][(calls' # calls /\ phase' = phase /\ time' = time) =>
            /\ \E c \in PlainCalls : calls' = Append(calls, c)
            /\ UNCHANGED <<enabled, time, builder, sampled, submitted, canonical, hist>>]_vars
    /\ [][(phase = "Configuring" /\ phase' = "Emitted") =>
            /\ submitted' = drop(builder, enabled, time)
            /\ calls' = calls \o submitted']_vars

\* a frame after the first in which a builder submitted its dashes, a plain
\* call was made and then a second builder submitted its dashes: the surface
\* holds them in this order
C16_Witness ==
    /\ Acted
    /\ time > 0
    /\ Len(submitted) > 1
    /\ Len(hist.before) > 2
    /\ hist.before[Len(hist.before)] \in PlainCalls
    /\ \A i \in 1..(Len(hist.before) - 1) : IsAnimated(hist.before[i])
    /\ calls = hist.before \o submitted

\* integer quotient truncated towards zero (b > 0)
TruncDiv(a, b) == IF a >= 0 THEN a \div b ELSE -((-a) \div b)

\* the offset i/n + elapsed_time*speed of dash i of builder b at clock t, and
\* the number floor(offset / (1 + 1/n)) of wraps it has made (offset >= 0)
Offset(b, i, t) == RAdd(R(i, b.segments), RMul(elapsed_seconds(t), b.speed))
Wraps(b, i, t) ==
    LET m == RAdd(One, R(1, b.segments))
        o == Offset(b, i, t)
    IN  TruncDiv(o[1] * m[2], o[2] * m[1])

\* trunc(x / y) for f32 x and y > 0 with x / y < 64: the whole y that x % y
\* takes from x
F32Quot(x, y) ==
    LET d == x.e - y.e
        q == (Abs(x.m) * (2 ^ d)) \div y.m
    IN  IF x.m = 0 \/ d < 0 THEN 0 ELSE IF x.m < 0 THEN -q ELSE q

\* the number of whole periods `%` removes from the offset of dash i of
\* builder b at clock t: the quotient of the offset by the period, both as
\* the f32 values the sampler computes
WholePeriods(b, i, t) ==
    LET num_f32 == as_f32(b.segments)
    IN  F32Quot(F32Add(F32Div(as_f32(i), num_f32),
                       F32Mul(ToF32(elapsed_seconds(t)), ToF32(b.speed))),
                F32Add(F32One, recip(num_f32)))

\* C17 as stated: direction of animation: for speed > 0 and
\* elapsed_time >= 0 dashes move from start towards end: for every dash index
\* i and frame times t < t' between which the dash does not wrap
\* (floor(offset / (1 + 1/n)) is the same at t and t'), both window bounds at
\* t' are at least the bounds at t, up to rounding.
C17_DashesMoveForward ==
    (Acted /\ RLt(Zero, builder.speed)) =>
        \A t2 \in (time + 1)..(MaxElapsed + 1) : \A i \in 0..builder.segments :
            Wraps(builder, i, time) = Wraps(builder, i, t2) =>
                LET later == sample_window(builder.segments, i,
                                           elapsed_seconds(t2), builder.speed)
                IN  /\ RLe(Below(sampled[i + 1][1]), RAdd(Below(later[1]), Tol))
                    /\ RLe(Below(sampled[i + 1][2]), RAdd(Below(later[2]), Tol))

\* C17 as amended: for speed > 0 and elapsed_time >= 0, for every dash index
\* i and frame times t < t' between which the dash does not wrap, the wraps
\* counted as `%` counts them on the f32 offset and period, both window
\* bounds at t' are at least the bounds at t.  (At an offset that is a whole
\* multiple of 1 + 1/n the f32 count can be one less than
\* floor(offset / (1 + 1/n)): the dash is still [1,1] there.)
C17_DashesMoveForwardBetweenWraps ==
    (Acted /\ RLt(Zero, builder.speed)) =>
        \A t2 \in (time + 1)..(MaxElapsed + 1) : \A i \in 0..builder.segments :
            WholePeriods(builder, i, time) = WholePeriods(builder, i, t2) =>
                LET later == sample_window(builder.segments, i,
                                           elapsed_seconds(t2), builder.speed)
                IN  /\ F32Le(sampled[i + 1][1], later[1])
                    /\ F32Le(sampled[i + 1][2], later[2])

\* a finalization with positive speed one of whose dashes is strictly further
\* along in the next frame, without a wrap in between, and another of whose
\* dashes is at a whole multiple of the period that `%` has not removed
C17_Witness ==
    /\ Acted
    /\ RLt(Zero, builder.speed)
    /\ time > 0
    /\ \E i \in 0..builder.segments :
        LET later == sample_window(builder.segments, i,
                                   elapsed_seconds(time + 1), builder.speed)
        IN  /\ WholePeriods(builder, i, time) = WholePeriods(builder, i, time + 1)
            /\ F32Lt(sampled[i + 1][1], later[1])
            /\ F32Lt(sampled[i + 1][2], later[2])
    /\ \E j \in 0..builder.segments :
        /\ WholePeriods(builder, j, time) < Wraps(builder, j, time)
        /\ WholePeriods(builder, j, time + 1) = Wraps(builder, j, time + 1)
        /\ sampled[j + 1] = <<F32One, F32One>>

\* the remainder of a by m > 0 with the sign of a, in exact arithmetic
Rem(a, m) ==
    LET q == TruncDiv(a[1] * m[2], a[2] * m[1])
    IN  RSub(a, RMul(R(q, 1), m))

\* the phase of dash i of builder b at clock t: its offset modulo 1 + 1/n
Phase(b, i, t) == Rem(Offset(b, i, t), RAdd(One, R(1, b.segments)))
\* the window of a dash is [0,0] or [1,1], up to rounding
AtStart(w) == Near(w[1], Zero) /\ Near(w[2], Zero)
AtEnd(w) == Near(w[1], One) /\ Near(w[2], One)

\* C18 as stated: smooth entry and exit: for speed > 0 and elapsed_time >= 0
\* a dash has fully left [0,1] before it re-enters: whenever its phase is in
\* [1 + 1/(2n), 1 + 1/n) its window is [1,1], at phase 0 it is [0,0], and
\* between any two frame times the visible length w1 - w0 of a dash changes by
\* at most the offset advance (t' - t)*speed, also across a wrap of the phase;
\* all up to rounding.
C18_SmoothEntryAndExit ==
    (Acted /\ RLt(Zero, builder.speed)) =>
        \A i \in 0..builder.segments :
            LET n == builder.segments
                p == Phase(builder, i, time)
            IN  /\ (RLe(RAdd(One, R(1, 2 * n)), p) /\ RLt(p, RAdd(One, R(1, n))))
                    => AtEnd(sampled[i + 1])
                /\ p = Zero => AtStart(sampled[i + 1])
                /\ \A t2 \in (time + 1)..(MaxElapsed + 1) :
                    LET later == sample_window(n, i, elapsed_seconds(t2), builder.speed)
                        advance == RMul(RSub(elapsed_seconds(t2), elapsed_seconds(time)),
                                        builder.speed)
                    IN  RLe(RAbs(RSub(WindowLength(later), WindowLength(sampled[i + 1]))),
                            RAdd(advance, Tol))

\* C18 as amended: for speed > 0 and elapsed_time >= 0, whenever the phase of
\* a dash is in [1 + 1/(2n), 1 + 1/n) its window is zero-length: [1,1], or
\* already [0,0] when `%` on the f32 offset and period has removed the period
\* the dash is about to complete; at phase 0 it is zero-length: [0,0], or
\* still [1,1] when `%` has left a whole period; and between any two frame
\* times the visible length w1 - w0 of a dash changes by at most the offset
\* advance (t' - t)*speed, also across a wrap of the phase; all up to
\* rounding.
C18_SmoothEntryAndExitZeroLength ==
    (Acted /\ RLt(Zero, builder.speed)) =>
        \A i \in 0..builder.segments :
            LET n == builder.segments
                p == Phase(builder, i, time)
            IN  /\ (RLe(RAdd(One, R(1, 2 * n)), p) /\ RLt(p, RAdd(One, R(1, n))))
                    => IF WholePeriods(builder, i, time) > Wraps(builder, i, time)
                       THEN AtStart(sampled[i + 1]) ELSE AtEnd(sampled[i + 1])
                /\ p = Zero =>
                    IF WholePeriods(builder, i, time) < Wraps(builder, i, time)
                    THEN AtEnd(sampled[i + 1]) ELSE AtStart(sampled[i + 1])
                /\ \A t2 \in (time + 1)..(MaxElapsed + 1) :
                    LET later == sample_window(n, i, elapsed_seconds(t2), builder.speed)
                        advance == RMul(RSub(elapsed_seconds(t2), elapsed_seconds(time)),
                                        builder.speed)
                    IN  RLe(RAbs(RSub(WindowLength(later), WindowLength(sampled[i + 1]))),
                            RAdd(advance, Tol))

\* the phase of dash i of builder b at clock t is in [1 + 1/(2n), 1 + 1/n)
Leaving(b, i, t) ==
    /\ RLe(RAdd(One, R(1, 2 * b.segments)), Phase(b, i, t))
    /\ RLt(Phase(b, i, t), RAdd(One, R(1, b.segments)))

\* a finalization with 5 segments at the clock 0.5 whose last dash is an ulp
\* short of the end of its period and has been wrapped by `%`: its window is
\* [0,0] while another dash is visible; and the builder with 3 segments and
\* speed 1 gets, at the clock 3.0, the window [1,1] for the dash at phase 0,
\* which `%` has not wrapped, and at 2.5 the window [1,1] up to rounding for
\* the dash at phase 1 + 1/(2n)
C18_Witness ==
    /\ Acted
    /\ <<builder.segments, builder.speed>> \in WrapCases
    /\ time = 1
    /\ \E i \in 0..builder.segments :
        /\ Leaving(builder, i, time)
        /\ WholePeriods(builder, i, time) > Wraps(builder, i, time)
        /\ sampled[i + 1] = <<F32Zero, F32Zero>>
    /\ \E j \in 0..builder.segments :
        /\ Visible(sampled[j + 1])
        /\ ~Leaving(builder, j, time)
    /\ LET late == speed(segments(builder, 3), One)
       IN  /\ Phase(late, 3, 6) = Zero
           /\ WholePeriods(late, 3, 6) < Wraps(late, 3, 6)
           /\ sample_window(3, 3, elapsed_seconds(6), One) = <<F32One, F32One>>
           /\ Leaving(late, 0, 5)
           /\ AtEnd(sample_window(3, 0, elapsed_seconds(5), One))

\* a draw call or builder without its resolution
NoResolution(x) == [x EXCEPT !.resolution = None]

\* C19: resolution forwarding in the 3D and 2D arc builders: if resolution(r)
\* was called every one of the n+1 sub-arcs has its resolution set to the last
\* r given; if it was never called no sub-arc has its resolution set.  A call
\* of resolution changes neither the number of sub-arcs nor their
\* endpoints/angles nor their colour.
C19_ResolutionForwarded ==
    (Acted /\ builder.kind \in {"AnimatedArcBuilder", "AnimatedArc2dBuilder"}) =>
        /\ Len(submitted) = builder.segments + 1
        /\ \A i \in DOMAIN submitted :
            /\ submitted[i].resolution = hist.resolution
            /\ NoResolution(submitted[i]) = segment(NoResolution(builder), sampled[i])
            /\ submitted[i].color = builder.color

\* a 2D arc whose resolution was set, last to 64, finalized with visible
\* sub-arcs that all carry 64
C19_Witness ==
    /\ Acted
    /\ builder.kind = "AnimatedArc2dBuilder"
    /\ hist.resolution = Some(64)
    /\ hist.overwritten
    /\ Len(submitted) > 1
    /\ \A i \in DOMAIN submitted : submitted[i].resolution = Some(64)
    /\ \E i \in DOMAIN submitted : F32Lt(F32Zero, submitted[i].arc_angle)

\* the sweep the 3D arc drop scales its windows by: the canonical angle
\* clamped to [-2*pi, 2*pi]
ClampedSweep == AClamp(canonical.angle, ANeg(TAU), TAU)

\* C20: each dash of a 3D ray-form arc is a minor arc: for both policies,
\* every n >= 1, time and speed, the two submitted endpoints are the circle
\* points at w0*angle and w1*angle and the angular extent
\* |w1 - w0| * |angle| between them is strictly less than pi.
C20_DashesAreMinorArcs ==
    (Acted /\ builder.kind = "AnimatedArcBuilder") =>
        \A i \in DOMAIN submitted :
            LET w == sampled[i]
                extent == AScale(LengthAbove(w), AAbs(ClampedSweep))
            IN  /\ submitted[i].from =
                    ArcPoint(builder.center, canonical, FracAngle(w[1], ClampedSweep))
                /\ submitted[i].to =
                    ArcPoint(builder.center, canonical, FracAngle(w[2], ClampedSweep))
                /\ ALt(extent, PI)
                /\ ALt(AAbs(ClampedSweep), TAU)
                /\ RLe(LengthAbove(w), RAdd(R(1, 2 * builder.segments), Tol))

\* a long arc of 3*pi/2 with one segment, finalized while a dash has its full
\* length 1/2: the dash spans 3*pi/4
C20_Witness ==
    /\ Acted
    /\ builder.kind = "AnimatedArcBuilder"
    /\ builder.angle_fn = "angle_fn_long"
    /\ builder.segments = 1
    /\ canonical.angle = Angle(R(3, 2), Zero)
    /\ \E i \in DOMAIN sampled :
        /\ sampled[i] = <<ToF32(R(1, 2)), F32One>>
        /\ AScale(WindowLength(sampled[i]), AAbs(ClampedSweep)) = Angle(R(3, 4), Zero)

\* every window of a sample is the zero-length [0,0]
AllGone(ws) == \A i \in DOMAIN ws : ws[i] = <<F32Zero, F32Zero>>

\* C21: a negative speed does not animate in reverse but makes the primitive
\* vanish: for speed < 0 and elapsed_time >= 0 every window whose offset
\* i/n + elapsed_time*speed is <= 0 is the zero-length [0,0]; once
\* elapsed_time*|speed| >= 1 all n+1 windows are [0,0], in this frame and in
\* every later one.  (Both bounds are the f32 zero.)
C21_NegativeSpeedVanishes ==
    (Acted /\ RLt(builder.speed, Zero)) =>
        /\ \A i \in 0..builder.segments :
            RLe(Offset(builder, i, time), Zero) =>
                sampled[i + 1] = <<F32Zero, F32Zero>>
        /\ RLe(One, RMul(elapsed_seconds(time), RAbs(builder.speed))) =>
            /\ Len(sampled) = builder.segments + 1
            /\ AllGone(sampled)
            /\ \A t2 \in time..(MaxElapsed + 1) :
                AllGone(sample_percentages(builder.segments, elapsed_seconds(t2),
                                           builder.speed))

\* a line with speed -1 and three segments finalized at 1 s: all four lines
\* submitted are the single point start
C21_Witness ==
    /\ Acted
    /\ builder.kind = "AnimatedLineBuilder"
    /\ builder.start # builder.end
    /\ builder.speed = R(-1, 1)
    /\ builder.segments = 3
    /\ time = 2
    /\ Len(sampled) = 4
    /\ \A i \in DOMAIN sampled : sampled[i] = <<F32Zero, F32Zero>>
    /\ \A i \in DOMAIN submitted :
        /\ submitted[i].start = ToVec(builder.start)
        /\ submitted[i].end = ToVec(builder.start)

\* C22: dashes never overlap: for every n > 0, speed >= 0 and
\* elapsed_time >= 0 the n+1 windows of one sample are pairwise
\* non-overlapping (for distinct i, j either w1_i <= w0_j or w1_j <= w0_i),
\* every window has length at most 1/(2n) (up to rounding), and at least n of
\* the n+1 windows have non-zero length.
C22_DashesNeverOverlap ==
    (Acted /\ RLe(Zero, builder.speed)) =>
        /\ Len(sampled) = builder.segments + 1
        /\ \A i \in DOMAIN sampled : \A j \in DOMAIN sampled :
            i # j => \/ F32Le(sampled[i][2], sampled[j][1])
                     \/ F32Le(sampled[j][2], sampled[i][1])
        /\ \A i \in DOMAIN sampled :
            RLe(LengthAbove(sampled[i]), RAdd(R(1, 2 * builder.segments), Tol))
        /\ Cardinality({i \in DOMAIN sampled : Visible(sampled[i])})
                >= builder.segments

\* a finalization with positive speed in a later frame in which all n+1
\* dashes are visible: the first is entering and the last is leaving, both cut
\* short, and the others have the full length 1/(2n)
C22_Witness ==
    /\ Acted
    /\ RLt(Zero, builder.speed)
    /\ time > 0
    /\ Cardinality({i \in DOMAIN sampled : Visible(sampled[i])})
            = builder.segments + 1
    /\ sampled[1][1] = F32Zero
    /\ RLt(LengthAbove(sampled[1]), RSub(R(1, 2 * builder.segments), Tol))
    /\ sampled[Len(sampled)][2] = F32One
    /\ RLt(LengthAbove(sampled[Len(sampled)]), RSub(R(1, 2 * builder.segments), Tol))
    /\ \E i \in DOMAIN sampled :
        RLe(RSub(R(1, 2 * builder.segments), Tol), LengthBelow(sampled[i]))

====
